---- MODULE Spec2Model ----
(***************************************************************************)
(* GPT-5 Prompt Designer (src/gpt5_prompt_designer.py): the text utilities *)
(* clamp_text and replace_vars, the PromptOptions record, PromptBuilder,   *)
(* and the MainWindow handlers that move a record between the widgets, the *)
(* output display and the settings file.                                   *)
(*                                                                         *)
(* A Python str is a sequence of atoms.  An atom is a one-character string *)
(* ("a", " ", "\n", "{") or a literal of the source kept whole ("You are", *)
(* "Constraints:").  A literal atom never starts or ends with whitespace   *)
(* (that whitespace is written as atoms of its own) and is never next to a *)
(* brace, so strip(), the newline regex and the placeholder regex act on   *)
(* the sequence exactly as they act on the characters.                     *)
(***************************************************************************)
EXTENDS Integers, Sequences, FiniteSets, TLC

VARIABLES
    os_linesep,   \* os.linesep of the platform the process runs on
    pc,           \* where the run of a pure function stands: "input" or "done"
    edits,        \* the number of inputs given so far
    opts,         \* SpecBuild: the PromptOptions handed to PromptBuilder
    built,        \* what build() returned: in SpecBuild once pc = "done", in Spec
                  \* at the latest click on build prompt
    text,         \* SpecVars: the text handed to replace_vars
    mapping,      \* SpecVars: the mapping handed to replace_vars
    replaced,     \* SpecVars: what replace_vars returned once pc = "done"
    clamped,      \* SpecClamp: what clamp_text returned once pc = "done"
    view,         \* Spec: what each widget of the main window holds
    output,       \* Spec: the text of the read-only output display
    status,       \* Spec: the message of the status bar
    handler,      \* Spec: the handler the latest user action ran
    path,         \* Spec: the path its file dialog returned, "" when none
    dialog,       \* Spec: the message box it showed, or "none"
    escaped,      \* Spec: whether it let an exception escape
    written,      \* Spec: what it wrote to the clipboard or to a file
    disk,         \* Spec: the settings file that save settings writes
    saved,        \* Spec: the record save settings collected for that file
    steps         \* Spec: the number of user actions so far

\* ---------------------------------------------------------------- strings

NL == "\n"

Upper ==
    <<"A","B","C","D","E","F","G","H","I","J","K","L","M",
      "N","O","P","Q","R","S","T","U","V","W","X","Y","Z">>

Lower ==
    <<"a","b","c","d","e","f","g","h","i","j","k","l","m",
      "n","o","p","q","r","s","t","u","v","w","x","y","z">>

Digits == <<"0","1","2","3","4","5","6","7","8","9">>

Range(f) == { f[i] : i \in DOMAIN f }

\* The character class [A-Za-z0-9_] of the placeholder regex.
IdChars == Range(Upper) \cup Range(Lower) \cup Range(Digits) \cup {"_"}

\* The characters str.strip() removes.
IsSpace(c) == c \in {" ", "\t", "\n", "\r"}

\* The names of the selector items that the code lower-cases.
LowerAtom(c) ==
    IF \E i \in DOMAIN Upper : Upper[i] = c
    THEN Lower[CHOOSE i \in DOMAIN Upper : Upper[i] = c]
    ELSE CASE c = "Default" -> "default"
           [] c = "Low"     -> "low"
           [] c = "Medium"  -> "medium"
           [] c = "High"    -> "high"
           [] c = "Minimal" -> "minimal"
           [] OTHER         -> c

\* str.lower()
lower(s) == [ i \in DOMAIN s |-> LowerAtom(s[i]) ]

\* str.strip()
strip(s) ==
    LET lead  == { k \in 0..Len(s) : k = Len(s) \/ ~IsSpace(s[k + 1]) }
        trail == { k \in 0..Len(s) : k = Len(s) \/ ~IsSpace(s[Len(s) - k]) }
        first == (CHOOSE k \in lead : \A j \in lead : k <= j) + 1
        last  == Len(s) - (CHOOSE k \in trail : \A j \in trail : k <= j)
    IN  SubSeq(s, first, last)

\* The least element of a non-empty set of integers.
Min(S) == CHOOSE i \in S : \A j \in S : i <= j

\* The length of the run of atoms of the set C that starts at position k of s.
RunAt(s, k, C) ==
    LET stops == { j \in k..Len(s) : s[j] \notin C }
    IN  IF stops = {} THEN Len(s) - k + 1 ELSE Min(stops) - k

\* A substitution of \n{3} instead of \n{3,}: every three newlines become
\* two, a longer run is not taken as a whole.
RECURSIVE sub_newlines_by_three(_)
sub_newlines_by_three(s) ==
    LET starts == { i \in 1..(Len(s) - 2) : s[i] = NL /\ s[i + 1] = NL /\ s[i + 2] = NL }
    IN  IF starts = {} THEN s
        ELSE LET i == Min(starts)
             IN  SubSeq(s, 1, i - 1) \o <<NL, NL>>
                     \o sub_newlines_by_three(SubSeq(s, i + 3, Len(s)))

\* re.sub(r'\n{3,}', '\n\n', s): the leftmost run of three or more newlines
\* is replaced by two, and the scan goes on behind the run.
RECURSIVE sub_newlines(_)
sub_newlines(s) ==
    LET starts == { i \in 1..(Len(s) - 2) :
                        s[i] = NL /\ s[i + 1] = NL /\ s[i + 2] = NL }
    IN  IF starts = {} THEN s
        ELSE LET i == Min(starts)
                 n == RunAt(s, i, {NL})
             IN  SubSeq(s, 1, i - 1) \o <<NL, NL>>
                     \o sub_newlines(SubSeq(s, i + n, Len(s)))

clamp_text(s) == strip(sub_newlines(s))

\* dict.get(key, default)
get(m, key, default) == IF key \in DOMAIN m THEN m[key] ELSE default

\* Whether a match of \{([A-Za-z0-9_]+)\} starts at position i of s.
IsPlaceholderAt(s, i) ==
    /\ s[i] = "{"
    /\ LET n == RunAt(s, i + 1, IdChars)
       IN  n >= 1 /\ i + n + 1 <= Len(s) /\ s[i + n + 1] = "}"

\* A substitution that scans the text it inserted again.
RECURSIVE replace_vars_rescanning(_, _)
replace_vars_rescanning(s, m) ==
    LET starts == { i \in DOMAIN s : IsPlaceholderAt(s, i) }
    IN  IF starts = {} THEN s
        ELSE LET i == Min(starts)
                 n == RunAt(s, i + 1, IdChars)
                 key == SubSeq(s, i + 1, i + n)
                 rest == SubSeq(s, i + n + 2, Len(s))
             IN  IF key \in DOMAIN m
                 THEN SubSeq(s, 1, i - 1) \o replace_vars_rescanning(m[key] \o rest, m)
                 ELSE SubSeq(s, 1, i + n + 1) \o replace_vars_rescanning(rest, m)

\* re.sub(r"\{([A-Za-z0-9_]+)\}", repl, text) with repl(m) =
\* mapping.get(m.group(1), m.group(0)): the leftmost match is replaced by
\* repl's value, and the scan goes on behind the match.
RECURSIVE replace_vars(_, _)
replace_vars(s, m) ==
    LET starts == { i \in DOMAIN s : IsPlaceholderAt(s, i) }
    IN  IF starts = {} THEN s
        ELSE LET i == Min(starts)
                 n == RunAt(s, i + 1, IdChars)
             IN  SubSeq(s, 1, i - 1)
                     \o get(m, SubSeq(s, i + 1, i + n), SubSeq(s, i, i + n + 1))
                     \o replace_vars(SubSeq(s, i + n + 2, Len(s)), m)

\* str.join
RECURSIVE join(_, _)
join(sep, list) ==
    IF list = << >> THEN << >>
    ELSE IF Len(list) = 1 THEN list[1]
    ELSE list[1] \o sep \o join(sep, Tail(list))

\* str.replace(old, new), old non-empty: the leftmost occurrence is
\* replaced, and the scan goes on behind it.
RECURSIVE replace(_, _, _)
replace(s, old, new) ==
    LET starts == { i \in 1..(Len(s) - Len(old) + 1) :
                        SubSeq(s, i, i + Len(old) - 1) = old }
    IN  IF starts = {} THEN s
        ELSE LET i == Min(starts)
             IN  SubSeq(s, 1, i - 1) \o new
                     \o replace(SubSeq(s, i + Len(old), Len(s)), old, new)

\* str(i) for the example numbers
str(i) == IF i < 10 THEN <<Digits[i + 1]>> ELSE <<Digits[(i \div 10) + 1], Digits[(i % 10) + 1]>>

\* ---------------------------------------------------------- PromptOptions

\* A literal of the source as a str.
L(a) == <<a>>

\* An empty dict.
EmptyDict == [ k \in {} |-> << >> ]

\* PromptOptions(): every field at its default.
PromptOptions ==
    [ role                        |-> L("General assistant"),
      custom_role                 |-> << >>,
      task                        |-> << >>,
      audience                    |-> << >>,
      constraints                 |-> << >>,
      delimiters                  |-> L("triple backticks"),
      output_format               |-> L("Plain text"),
      json_schema                 |-> << >>,
      additional_context          |-> << >>,
      eagerness                   |-> L("Medium"),
      reasoning_effort            |-> L("Default"),
      include_tool_preamble       |-> FALSE,
      include_persistence         |-> FALSE,
      include_progress_narration  |-> FALSE,
      include_tool_disambiguation |-> FALSE,
      tool_context                |-> << >>,
      coding_mode                 |-> FALSE,
      include_planning            |-> FALSE,
      planning_snippet            |-> << >>,
      include_apply_patch_instr   |-> FALSE,
      include_tool_defs           |-> FALSE,
      coding_notes                |-> << >>,
      verbosity                   |-> L("Default"),
      verbosity_override          |-> << >>,
      markdown_guidance           |-> FALSE,
      ask_brief_rationale         |-> FALSE,
      meta_mode                   |-> FALSE,
      meta_prompt                 |-> << >>,
      meta_desired                |-> << >>,
      meta_undesired              |-> << >>,
      examples                    |-> << >>,
      variables                   |-> EmptyDict,
      include_swe_bench           |-> FALSE,
      include_retail_min_reason   |-> FALSE ]

FieldNames == DOMAIN PromptOptions

\* ---------------------------------------------------------- PromptBuilder

\* A list with x appended when the condition holds.
AppendIf(list, cond, x) == IF cond THEN Append(list, x) ELSE list

_role_line(o) ==
    LET role0 == IF o.role = L("Custom") THEN strip(o.custom_role) ELSE o.role
        role  == IF role0 = << >> THEN L("General assistant") ELSE role0
    IN  <<"You are", " ">> \o role \o <<".">>

_audience_line(o) ==
    LET aud == strip(o.audience)
    IN  IF aud # << >> THEN <<"Target audience:", " ">> \o aud \o <<".">> ELSE << >>

_constraints_block(o) ==
    LET cons == clamp_text(o.constraints)
    IN  IF cons # << >>
        THEN <<"Constraints:", NL, "-", " ">>
                 \o replace(cons, os_linesep, os_linesep \o <<"-", " ">>)
        ELSE << >>

_formatting_block(o) ==
    LET md     == o.output_format = L("Markdown") \/ o.markdown_guidance
        p1     == AppendIf(<< >>, md,
                      L("Format the final answer in Markdown where semantically correct. Use inline code, fenced code blocks, lists, and tables appropriately."))
        p2     == AppendIf(p1, md,
                      L("When naming files or code elements, use backticks; use \\( \\) for inline math and \\[ \\] for block math."))
        schema == clamp_text(o.json_schema)
        p3     == IF o.output_format = L("JSON")
                  THEN IF schema # << >>
                       THEN p2 \o << L("Return a single JSON object that exactly follows this JSON Schema:"),
                                     schema >>
                       ELSE Append(p2, L("Return a single valid JSON object with keys appropriate to the task. No extra commentary."))
                  ELSE p2
    IN  join(<<NL>>, p3)

\* _verbosity_block that reads a verbosity it does not list as "Default".
_verbosity_block_listed_only(o) ==
    LET v  == o.verbosity
        ov == strip(o.verbosity_override)
    IN  IF v \notin { L("Low"), L("Medium"), L("High") } THEN ov
        ELSE <<"Verbosity:", " ">> \o lower(v) \o <<".">>
                 \o (IF ov # << >> THEN <<" ">> \o ov ELSE << >>)

_verbosity_block(o) ==
    LET v  == o.verbosity
        ov == strip(o.verbosity_override)
    IN  IF v = L("Default") THEN ov
        ELSE <<"Verbosity:", " ">> \o lower(v) \o <<".">>
                 \o (IF ov # << >> THEN <<" ">> \o ov ELSE << >>)

_reasoning_block(o) ==
    LET r == o.reasoning_effort
    IN  IF r = L("Default") THEN << >>
        ELSE <<"Reasoning effort:", " ">> \o lower(r) \o <<".">>

\* _agentic_controls with the eagerness sentence chosen by an if/elif chain
\* that has no else: an eagerness that is not listed emits no sentence, and
\* "Medium" with no flag set emits the sentence of "Low".
_agentic_controls_no_else(o) ==
    LET e  == o.eagerness
        l1 == IF e = L("Low") \/ e = L("Medium")
              THEN << L("Agentic eagerness: low. Avoid tangential tool calls. Ask at most one clarifying question only if blocking.") >>
              ELSE IF e = L("High")
              THEN << L("Agentic eagerness: high. Be proactive. Decompose the task and use available tools when helpful.") >>
              ELSE << >>
        l2 == AppendIf(l1, o.include_tool_preamble,
                  L("Before tools: emit a short tool preamble that restates the goal, the plan, and the next action."))
    IN  join(<<NL>>, l2)

_agentic_controls(o) ==
    LET e  == o.eagerness
        l1 == IF e = L("Low")
              THEN << L("Agentic eagerness: low. Avoid tangential tool calls. Ask at most one clarifying question only if blocking.") >>
              ELSE IF e = L("High")
              THEN << L("Agentic eagerness: high. Be proactive. Decompose the task and use available tools when helpful.") >>
              ELSE << L("Agentic eagerness: medium. Balance proactivity with directness.") >>
        l2 == AppendIf(l1, o.include_tool_preamble,
                  L("Before tools: emit a short tool preamble that restates the goal, the plan, and the next action."))
        l3 == AppendIf(l2, o.include_progress_narration,
                  L("During long tasks: include brief progress updates and what remains."))
        l4 == AppendIf(l3, o.include_persistence,
                  L("Agentic persistence: continue until the user's goal is fully achieved. Do not stop early."))
        tc == clamp_text(o.tool_context)
        l5 == IF o.include_tool_disambiguation /\ tc # << >>
              THEN l4 \o << L("Tool instructions: follow these disambiguated tool rules:"), tc >>
              ELSE l4
    IN  join(<<NL>>, l5)

_planning_block(o) ==
    IF ~o.include_planning THEN << >>
    ELSE LET snippet == clamp_text(
                 IF o.planning_snippet # << >> THEN o.planning_snippet
                 ELSE L("Plan the steps before producing the final answer. Verify each step. Do not yield until all sub-tasks are complete."))
         IN  <<"Planning:", NL>> \o snippet

_coding_block(o) ==
    IF ~o.coding_mode THEN << >>
    ELSE LET l1    == << L("Coding mode: enabled. Prefer small, verifiable steps and runnable outputs.") >>
             l2    == AppendIf(l1, o.include_apply_patch_instr,
                          L("For code edits, prefer unified diffs in an apply_patch block: begin with '*** Begin Patch' and end with '*** End Patch'."))
             l3    == AppendIf(l2, o.include_tool_defs,
                          L("Assume standard code tools are available as defined by the host environment. Use them when appropriate."))
             notes == clamp_text(o.coding_notes)
             l4    == AppendIf(l3, notes # << >>, notes)
         IN  join(<<NL>>, l4)

\* The atom of the fence of three backtick characters (U+0060), a character
\* that a TLA+ string cannot hold.
Backticks == "[three backticks]"

\* _delim whose last return gives the quotes.
_delim_unknown_as_quotes(o) ==
    LET d == o.delimiters
    IN  IF d = L("triple backticks") THEN <<Backticks, Backticks>>
        ELSE IF d = L("XML tags") THEN <<"<content>", "</content>">>
        ELSE <<"\"\"\"", "\"\"\"">>

_delim(o) ==
    LET d == o.delimiters
    IN  IF d = L("triple backticks") THEN <<Backticks, Backticks>>
        ELSE IF d = L("triple quotes") THEN <<"\"\"\"", "\"\"\"">>
        ELSE IF d = L("XML tags") THEN <<"<content>", "</content>">>
        ELSE <<Backticks, Backticks>>

\* The two lines of example i (numbered from 1) and of those behind it.
RECURSIVE ExampleLines(_, _, _)
ExampleLines(examples, i, d) ==
    IF i > Len(examples) THEN << >>
    ELSE LET u == clamp_text(examples[i][1])
             a == clamp_text(examples[i][2])
         IN  << <<"Example", " ">> \o str(i) \o <<" ", "- user", " ", d[1], NL>> \o u \o <<NL, d[2]>>,
                <<"Example", " ">> \o str(i) \o <<" ", "- assistant", " ", d[1], NL>> \o a \o <<NL, d[2]>> >>
                 \o ExampleLines(examples, i + 1, d)

_examples_block(o) ==
    IF o.examples = << >> THEN << >>
    ELSE join(<<NL>>, << L("Few-shot examples:") >> \o ExampleLines(o.examples, 1, _delim(o)))

_appendix_block(o) ==
    LET l1 == AppendIf(<< >>, o.include_swe_bench,
                  L("Appendix: When editing code, use an apply_patch block with a unified diff. Verify changes thoroughly and consider hidden tests."))
        l2 == AppendIf(l1, o.include_retail_min_reason,
                  L("Appendix: Retail domain guardrails. Authenticate the user first. Only act for the authenticated user. Before database changes, summarize the action and get explicit confirmation."))
    IN  join(<<NL>>, l2)

\* _meta_prompt that puts the role line in front of the wrapper.
_meta_prompt_with_role(o) ==
    LET d == _delim(o)
    IN  join(<<NL>>, << <<"You are", " ">> \o o.role \o <<".">>,
                        <<"Prompt", " ", d[1], NL>> \o clamp_text(o.meta_prompt) \o <<NL, d[2]>> >>)

_meta_prompt(o) ==
    LET d         == _delim(o)
        base      == clamp_text(o.meta_prompt)
        desired   == clamp_text(o.meta_desired)
        undesired == clamp_text(o.meta_undesired)
        lines     ==
            << L("Optimize the following prompt. Explain what minimal edits or additions would encourage the desired behavior and reduce undesired behavior."),
               IF desired # << >> THEN <<"Desired behavior:", " ">> \o desired
               ELSE L("Desired behavior: (not provided)"),
               IF undesired # << >> THEN <<"Undesired behavior:", " ">> \o undesired
               ELSE L("Undesired behavior: (not provided)"),
               <<"Prompt", " ", d[1], NL>> \o base \o <<NL, d[2]>> >>
    IN  join(<<NL>>, lines)

\* The kept pieces in the reverse order.
RECURSIVE StrippedPieces_reversed(_)
StrippedPieces_reversed(pieces) ==
    IF pieces = << >> THEN << >>
    ELSE StrippedPieces_reversed(Tail(pieces))
             \o (IF strip(Head(pieces)) # << >> THEN << strip(Head(pieces)) >> ELSE << >>)

\* The pieces of build() that are kept: those that are not blank, stripped.
RECURSIVE StrippedPieces(_)
StrippedPieces(pieces) ==
    IF pieces = << >> THEN << >>
    ELSE (IF strip(Head(pieces)) # << >> THEN << strip(Head(pieces)) >> ELSE << >>)
             \o StrippedPieces(Tail(pieces))

\* build() that substitutes last in meta mode as well.
build_substituting_last(o) ==
    IF o.meta_mode
    THEN replace_vars(clamp_text(_meta_prompt(o)), o.variables)
    ELSE LET d  == _delim(o)
             p1 == << _role_line(o) >>
             p2 == AppendIf(p1, strip(o.task) # << >>,
                       <<"Task", " ", d[1], NL>> \o clamp_text(o.task) \o <<NL, d[2]>>)
             p3 == AppendIf(p2, strip(o.additional_context) # << >>,
                       <<"Context", " ", d[1], NL>> \o clamp_text(o.additional_context) \o <<NL, d[2]>>)
             p4 == p3 \o StrippedPieces(<< _audience_line(o),
                                           _constraints_block(o),
                                           _verbosity_block(o),
                                           _reasoning_block(o),
                                           _agentic_controls(o),
                                           _planning_block(o),
                                           _coding_block(o),
                                           _examples_block(o),
                                           _formatting_block(o),
                                           _appendix_block(o) >>)
             p5 == AppendIf(p4, o.ask_brief_rationale,
                       L("Begin the final answer with 1-3 concise bullets summarizing key factors. Do not include private chain-of-thought."))
             composed == clamp_text(join(<<NL, NL>>, SelectSeq(p5, LAMBDA p : strip(p) # << >>)))
         IN  replace_vars(composed, o.variables)

\* PromptBuilder(o).build()
build(o) ==
    IF o.meta_mode
    THEN clamp_text(replace_vars(_meta_prompt(o), o.variables))
    ELSE LET d  == _delim(o)
             p1 == << _role_line(o) >>
             p2 == AppendIf(p1, strip(o.task) # << >>,
                       <<"Task", " ", d[1], NL>> \o clamp_text(o.task) \o <<NL, d[2]>>)
             p3 == AppendIf(p2, strip(o.additional_context) # << >>,
                       <<"Context", " ", d[1], NL>> \o clamp_text(o.additional_context) \o <<NL, d[2]>>)
             p4 == p3 \o StrippedPieces(<< _audience_line(o),
                                           _constraints_block(o),
                                           _verbosity_block(o),
                                           _reasoning_block(o),
                                           _agentic_controls(o),
                                           _planning_block(o),
                                           _coding_block(o),
                                           _examples_block(o),
                                           _formatting_block(o),
                                           _appendix_block(o) >>)
             p5 == AppendIf(p4, o.ask_brief_rationale,
                       L("Begin the final answer with 1-3 concise bullets summarizing key factors. Do not include private chain-of-thought."))
             composed == clamp_text(join(<<NL, NL>>, SelectSeq(p5, LAMBDA p : strip(p) # << >>)))
         IN  replace_vars(composed, o.variables)

\* -------------------------------------------------------------- widgets

\* The items of each selector, in the order of addItems.
RoleItems ==
    << L("General assistant"), L("Coding assistant"), L("Data analyst"),
       L("Writing coach"), L("Custom") >>

DelimItems == << L("triple backticks"), L("triple quotes"), L("XML tags") >>

OutputFormatItems == << L("Plain text"), L("Markdown"), L("JSON") >>

EagerItems == << L("Low"), L("Medium"), L("High") >>

ReasoningItems == << L("Default"), L("Minimal"), L("Medium"), L("High") >>

VerbosityItems == << L("Default"), L("Low"), L("Medium"), L("High") >>

PresetItems ==
    << L("Custom"), L("General task"), L("Agentic low-eagerness"),
       L("Agentic high-eagerness"), L("Coding workflow"), L("Metaprompt optimizer") >>

\* QComboBox.findText(t): the index of the item, from 0, or -1.
findText(items, t) ==
    IF t \in Range(items) THEN (CHOOSE i \in DOMAIN items : items[i] = t) - 1 ELSE -1

\* A selector that ignores setCurrentText.
setCurrentText_ignored(current, items, t) == current

\* QComboBox.setCurrentText(t) on a selector that is not editable: the item
\* with that text becomes the current one; when no item has it, the
\* selector keeps its current item.
setCurrentText(current, items, t) ==
    IF t \in Range(items) THEN t ELSE current

\* QTextEdit.setPlainText(t) followed by toPlainText(): the document keeps
\* the text as blocks, so "\r\n" and "\r" come back as "\n".
setPlainText(t) == replace(replace(t, <<"\r", NL>>, <<NL>>), <<"\r">>, <<NL>>)

\* QLineEdit.setText(t) followed by text(), and QTableWidgetItem(t).text().
setText(t) == t

\* The widgets after __init__ and _init_ui: each selector at its first item,
\* every editor empty, every box unchecked, both tables without rows.
InitialView ==
    [ role_combo          |-> RoleItems[1],
      custom_role         |-> << >>,
      task_edit           |-> << >>,
      context_edit        |-> << >>,
      audience_edit       |-> << >>,
      constraints_edit    |-> << >>,
      delim_combo         |-> DelimItems[1],
      output_format_combo |-> OutputFormatItems[1],
      json_schema_edit    |-> << >>,
      eager_combo         |-> EagerItems[1],
      reasoning_combo     |-> ReasoningItems[1],
      chk_tool_preamble   |-> FALSE,
      chk_persistence     |-> FALSE,
      chk_progress        |-> FALSE,
      chk_tool_rules      |-> FALSE,
      tool_rules_edit     |-> << >>,
      chk_coding          |-> FALSE,
      chk_planning        |-> FALSE,
      planning_edit       |-> << >>,
      chk_apply_patch     |-> FALSE,
      chk_tool_defs       |-> FALSE,
      coding_notes        |-> << >>,
      verbosity_combo     |-> VerbosityItems[1],
      verbosity_override  |-> << >>,
      chk_markdown        |-> FALSE,
      chk_brief_rationale |-> FALSE,
      chk_meta_mode       |-> FALSE,
      meta_prompt         |-> << >>,
      meta_desired        |-> << >>,
      meta_undesired      |-> << >>,
      examples_table      |-> << >>,
      vars_table          |-> << >>,
      chk_swe             |-> FALSE,
      chk_retail          |-> FALSE ]

\* The greatest element of a non-empty set of integers.
Max(S) == CHOOSE i \in S : \A j \in S : j <= i

\* The dict that the loop over the rows of vars_table builds: the key of a
\* row is its name stripped, a row with an empty key is skipped, a later
\* row with the same key overwrites.
DictOfRows(rows) ==
    LET keys == { strip(rows[i][1]) : i \in DOMAIN rows } \ { << >> }
    IN  [ k \in keys |-> rows[Max({ i \in DOMAIN rows : strip(rows[i][1]) = k })][2] ]

\* The (key, value) rows of a dict, in one fixed order.  (A Python dict
\* yields its items in insertion order; what is read from the table depends
\* on the order of two rows only when their keys are equal once stripped,
\* and no dict of the model holds two such keys.)
RECURSIVE RowsOfDict(_)
RowsOfDict(d) ==
    IF DOMAIN d = {} THEN << >>
    ELSE LET k == CHOOSE x \in DOMAIN d : TRUE
         IN  << <<setText(k), setText(d[k])>> >>
                 \o RowsOfDict([ x \in DOMAIN d \ {k} |-> d[x] ])

\* The rows of examples_table that _collect_options keeps.
KeptExample(r) == strip(r[1]) # << >> \/ strip(r[2]) # << >>

_collect_options(v) ==
    [ role                        |-> v.role_combo,
      custom_role                 |-> v.custom_role,
      task                        |-> v.task_edit,
      additional_context          |-> v.context_edit,
      audience                    |-> v.audience_edit,
      constraints                 |-> v.constraints_edit,
      delimiters                  |-> v.delim_combo,
      output_format               |-> v.output_format_combo,
      json_schema                 |-> v.json_schema_edit,
      eagerness                   |-> v.eager_combo,
      reasoning_effort            |-> v.reasoning_combo,
      include_tool_preamble       |-> v.chk_tool_preamble,
      include_persistence         |-> v.chk_persistence,
      include_progress_narration  |-> v.chk_progress,
      include_tool_disambiguation |-> v.chk_tool_rules,
      tool_context                |-> v.tool_rules_edit,
      coding_mode                 |-> v.chk_coding,
      include_planning            |-> v.chk_planning,
      planning_snippet            |-> v.planning_edit,
      include_apply_patch_instr   |-> v.chk_apply_patch,
      include_tool_defs           |-> v.chk_tool_defs,
      coding_notes                |-> v.coding_notes,
      verbosity                   |-> v.verbosity_combo,
      verbosity_override          |-> v.verbosity_override,
      markdown_guidance           |-> v.chk_markdown,
      ask_brief_rationale         |-> v.chk_brief_rationale,
      meta_mode                   |-> v.chk_meta_mode,
      meta_prompt                 |-> v.meta_prompt,
      meta_desired                |-> v.meta_desired,
      meta_undesired              |-> v.meta_undesired,
      examples                    |-> SelectSeq(v.examples_table, KeptExample),
      variables                   |-> DictOfRows(v.vars_table),
      include_swe_bench           |-> v.chk_swe,
      include_retail_min_reason   |-> v.chk_retail ]

\* Whether "for u, a in ..." can unpack the entry e.
IsPair(e) == Len(e) = 2

\* The rows that the loop over o.examples inserts: one per entry, up to the
\* first entry that does not unpack into two.
ExampleRows(examples) ==
    LET bad == { i \in DOMAIN examples : ~IsPair(examples[i]) }
        n   == IF bad = {} THEN Len(examples) ELSE Min(bad) - 1
    IN  [ i \in 1..n |-> <<setText(examples[i][1]), setText(examples[i][2])>> ]

\* Whether _apply_options(o) raises: an entry of o.examples does not unpack.
ApplyRaises(o) == \E i \in DOMAIN o.examples : ~IsPair(o.examples[i])

\* The widgets after _apply_options(o) on the widgets v, run to its end or
\* to the statement that raises.
_apply_options(v, o) ==
    LET idx == findText(RoleItems, o.role)
        upToExamples ==
            [ role_combo          |-> RoleItems[(IF idx >= 0 THEN idx ELSE 0) + 1],
              custom_role         |-> setText(o.custom_role),
              task_edit           |-> setPlainText(o.task),
              context_edit        |-> setPlainText(o.additional_context),
              audience_edit       |-> setText(o.audience),
              constraints_edit    |-> setPlainText(o.constraints),
              delim_combo         |-> setCurrentText(v.delim_combo, DelimItems, o.delimiters),
              output_format_combo |-> setCurrentText(v.output_format_combo, OutputFormatItems, o.output_format),
              json_schema_edit    |-> setPlainText(o.json_schema),
              eager_combo         |-> setCurrentText(v.eager_combo, EagerItems, o.eagerness),
              reasoning_combo     |-> setCurrentText(v.reasoning_combo, ReasoningItems, o.reasoning_effort),
              chk_tool_preamble   |-> o.include_tool_preamble,
              chk_persistence     |-> o.include_persistence,
              chk_progress        |-> o.include_progress_narration,
              chk_tool_rules      |-> o.include_tool_disambiguation,
              tool_rules_edit     |-> setPlainText(o.tool_context),
              chk_coding          |-> o.coding_mode,
              chk_planning        |-> o.include_planning,
              planning_edit       |-> setPlainText(o.planning_snippet),
              chk_apply_patch     |-> o.include_apply_patch_instr,
              chk_tool_defs       |-> o.include_tool_defs,
              coding_notes        |-> setPlainText(o.coding_notes),
              verbosity_combo     |-> setCurrentText(v.verbosity_combo, VerbosityItems, o.verbosity),
              verbosity_override  |-> setText(o.verbosity_override),
              chk_markdown        |-> o.markdown_guidance,
              chk_brief_rationale |-> o.ask_brief_rationale,
              chk_meta_mode       |-> o.meta_mode,
              meta_prompt         |-> setPlainText(o.meta_prompt),
              meta_desired        |-> setText(o.meta_desired),
              meta_undesired      |-> setText(o.meta_undesired),
              examples_table      |-> ExampleRows(o.examples),
              vars_table          |-> v.vars_table,
              chk_swe             |-> v.chk_swe,
              chk_retail          |-> v.chk_retail ]
    IN  IF ApplyRaises(o) THEN upToExamples
        ELSE [ upToExamples EXCEPT !.vars_table = RowsOfDict(o.variables),
                                   !.chk_swe    = o.include_swe_bench,
                                   !.chk_retail = o.include_retail_min_reason ]

\* The record _apply_preset builds for the preset named which.
PresetOptions(which) ==
    IF which = L("General task")
    THEN [ PromptOptions EXCEPT !.role = L("General assistant"),
                                !.markdown_guidance = TRUE,
                                !.verbosity = L("Medium"),
                                !.eagerness = L("Medium"),
                                !.delimiters = L("triple backticks") ]
    ELSE IF which = L("Agentic low-eagerness")
    THEN [ PromptOptions EXCEPT !.include_persistence = TRUE,
                                !.include_tool_preamble = TRUE,
                                !.eagerness = L("Low"),
                                !.reasoning_effort = L("Minimal"),
                                !.ask_brief_rationale = FALSE,
                                !.markdown_guidance = TRUE,
                                !.verbosity = L("Low") ]
    ELSE IF which = L("Agentic high-eagerness")
    THEN [ PromptOptions EXCEPT !.include_persistence = TRUE,
                                !.include_tool_preamble = TRUE,
                                !.include_progress_narration = TRUE,
                                !.include_tool_disambiguation = TRUE,
                                !.eagerness = L("High"),
                                !.reasoning_effort = L("Medium"),
                                !.markdown_guidance = TRUE,
                                !.verbosity = L("Medium") ]
    ELSE IF which = L("Coding workflow")
    THEN [ PromptOptions EXCEPT !.role = L("Coding assistant"),
                                !.coding_mode = TRUE,
                                !.include_planning = TRUE,
                                !.include_apply_patch_instr = TRUE,
                                !.include_tool_defs = TRUE,
                                !.markdown_guidance = TRUE,
                                !.verbosity = L("Medium"),
                                !.reasoning_effort = L("Medium"),
                                !.include_persistence = TRUE,
                                !.eagerness = L("Medium") ]
    ELSE IF which = L("Metaprompt optimizer")
    THEN [ PromptOptions EXCEPT !.meta_mode = TRUE,
                                !.verbosity = L("Low"),
                                !.markdown_guidance = FALSE,
                                !.eagerness = L("Low") ]
    ELSE PromptOptions

\* ------------------------------------------------------- settings files

\* A file is text that is not JSON, JSON that is not an object, or a JSON
\* object: its members, a function from key to value.
NotJson == [ kind |-> "text" ]

JsonArray == [ kind |-> "array" ]

JsonObject(members) == [ kind |-> "object", members |-> members ]

\* A serialization that loses the examples.
json_dumps_without_examples(o) == JsonObject([ o EXCEPT !.examples = << >> ])

\* json.dumps(o, default=lambda x: x.__dict__): the object of all fields of
\* o, the tuples of o.examples written as arrays.
json_dumps(o) ==
    JsonObject([ o EXCEPT !.examples =
                     [ i \in DOMAIN o.examples |-> <<o.examples[i][1], o.examples[i][2]>> ] ])

\* Whether json.load raises on the file.
JsonLoadRaises(file) == file.kind = "text"

\* A constructor that accepts any keyword.
KwargsRaise_lenient(file) == file.kind # "object"

\* Whether PromptOptions(**data) raises: data is no mapping, or a key of it
\* is no field of the dataclass.
KwargsRaise(file) ==
    \/ file.kind # "object"
    \/ ~(DOMAIN file.members \subseteq FieldNames)

\* PromptOptions(**data): the fields that data names, the others at their
\* defaults.
PromptOptionsFrom(data) ==
    [ f \in FieldNames |-> IF f \in DOMAIN data THEN data[f] ELSE PromptOptions[f] ]

\* ------------------------------------------------- inputs of the builder

\* The number of fields of a seed record that a run assigns before it builds.
MaxEdits == 1

BoolFields ==
    { "include_tool_preamble", "include_persistence", "include_progress_narration",
      "include_tool_disambiguation", "coding_mode", "include_planning",
      "include_apply_patch_instr", "include_tool_defs", "markdown_guidance",
      "ask_brief_rationale", "meta_mode", "include_swe_bench",
      "include_retail_min_reason" }

TextFields ==
    { "custom_role", "task", "audience", "constraints", "json_schema",
      "additional_context", "tool_context", "planning_snippet", "coding_notes",
      "verbosity_override", "meta_prompt", "meta_desired", "meta_undesired" }

SelectorFields ==
    { "role", "delimiters", "output_format", "eagerness", "reasoning_effort",
      "verbosity" }

\* A value no selector lists.
Unlisted == <<"Z", "z">>

\* Sample free texts: plain, blank, a placeholder, a run of newlines inside
\* and whitespace around.
SampleTexts ==
    { <<"a">>, <<" ">>, <<"{", "X", "}">>, <<" ", "a", NL, NL, NL, "b", NL>> }

SampleExamples ==
    { << << <<"q">>, <<"r">> >> >>,
      << << <<"q", NL, NL, NL, "q">>, <<" ">> >>, << <<"{", "X", "}">>, <<"r">> >> >> }

SampleVariables ==
    { (<<"X">> :> <<"v">>),
      (<<"X">> :> <<"{", "Y", "}">>) @@ (<<"Y">> :> <<"z">>),
      (<<"X">> :> <<" ", NL, NL, NL, " ">>) @@ (<<"X", "-">> :> <<"w">>) }

\* The values a run may give to field f.
FieldValues(f) ==
    IF f \in BoolFields THEN BOOLEAN
    ELSE IF f \in TextFields THEN SampleTexts \cup { << >> }
    ELSE IF f = "role"
         THEN { L("General assistant"), L("Coding assistant"), L("Custom") }
    ELSE IF f = "delimiters"
         THEN { L("triple backticks"), L("triple quotes"), L("XML tags"), Unlisted }
    ELSE IF f = "output_format"
         THEN { L("Plain text"), L("Markdown"), L("JSON"), Unlisted }
    ELSE IF f = "eagerness"
         THEN { L("Low"), L("Medium"), L("High"), Unlisted }
    ELSE IF f = "reasoning_effort"
         THEN { L("Default"), L("Minimal"), L("High"), Unlisted }
    ELSE IF f = "verbosity"
         THEN { L("Default"), L("Low"), L("High"), Unlisted }
    ELSE IF f = "examples" THEN SampleExamples \cup { << >> }
    ELSE SampleVariables \cup { EmptyDict }

\* The scenario of the coding workflow: a task, coding mode, patch instructions.
CodingScenario ==
    [ PromptOptions EXCEPT !.role = L("Coding assistant"),
                           !.task = L("Fix the failing test"),
                           !.coding_mode = TRUE,
                           !.include_apply_patch_instr = TRUE ]

\* A record in meta mode whose prompt holds a placeholder.
MetaScenario ==
    [ PromptOptions EXCEPT !.meta_mode = TRUE,
                           !.meta_prompt = <<"p", " ", "{", "X", "}">>,
                           !.meta_desired = <<"d">>,
                           !.variables = (<<"X">> :> <<"v">>) ]

\* A record in which every section of the prompt is present.
FullScenario ==
    [ role                        |-> L("Custom"),
      custom_role                 |-> <<" ", "c", "r">>,
      task                        |-> <<"t", " ", "{", "X", "}">>,
      audience                    |-> <<"u">>,
      constraints                 |-> <<"k", NL, "l">>,
      delimiters                  |-> L("XML tags"),
      output_format               |-> L("JSON"),
      json_schema                 |-> <<"{", "}">>,
      additional_context          |-> <<"x">>,
      eagerness                   |-> L("High"),
      reasoning_effort            |-> L("Minimal"),
      include_tool_preamble       |-> TRUE,
      include_persistence         |-> TRUE,
      include_progress_narration  |-> TRUE,
      include_tool_disambiguation |-> TRUE,
      tool_context                |-> <<"o">>,
      coding_mode                 |-> TRUE,
      include_planning            |-> TRUE,
      planning_snippet            |-> <<"s">>,
      include_apply_patch_instr   |-> TRUE,
      include_tool_defs           |-> TRUE,
      coding_notes                |-> <<"n">>,
      verbosity                   |-> L("Low"),
      verbosity_override          |-> <<"v", "o">>,
      markdown_guidance           |-> TRUE,
      ask_brief_rationale         |-> TRUE,
      meta_mode                   |-> FALSE,
      meta_prompt                 |-> <<"m">>,
      meta_desired                |-> << >>,
      meta_undesired              |-> <<"w">>,
      examples                    |-> << << <<"q">>, <<"r">> >> >>,
      variables                   |-> (<<"X">> :> <<"v">>),
      include_swe_bench           |-> TRUE,
      include_retail_min_reason   |-> TRUE ]

SeedRecords == { PromptOptions, CodingScenario, MetaScenario, FullScenario }

\* os.linesep: "\n" on POSIX, "\r\n" on Windows.
LineSeps == { <<NL>>, <<"\r", NL>> }

\* ------------------------------------------------------ variable groups

buildVars == <<pc, edits, opts, built>>

textVars == <<text, mapping, replaced, clamped>>

guiVars == <<view, output, status, handler, path, dialog, escaped, written, disk, saved, steps>>

vars == <<os_linesep, buildVars, textVars, guiVars>>

\* No write to the clipboard or to a file.
NoWrite == [ to |-> "none", text |-> << >>, failed |-> FALSE ]

\* The settings file does not exist.
NoFile == [ kind |-> "missing" ]

\* MainWindow.__init__: the widgets of _init_ui, an empty output display,
\* "Ready" in the status bar; no handler has run.
InitWindow ==
    /\ view = InitialView
    /\ output = << >>
    /\ status = <<"Ready">>
    /\ handler = "__init__"
    /\ path = ""
    /\ dialog = "none"
    /\ escaped = FALSE
    /\ written = NoWrite
    /\ disk = NoFile
    /\ saved = PromptOptions
    /\ steps = 0

\* No call of replace_vars is under way.
NoText == text = << >> /\ mapping = EmptyDict /\ replaced = << >> /\ clamped = << >>

\* ------------------------------------------------------------- SpecBuild
\* PromptBuilder(opts).build() on a seed record with up to MaxEdits fields
\* assigned.

InitBuild ==
    /\ os_linesep \in LineSeps
    /\ InitWindow
    /\ NoText
    /\ pc = "input"
    /\ edits = 0
    /\ opts \in SeedRecords
    /\ built = << >>

\* o.f = v
SetField(f, v) ==
    /\ pc = "input"
    /\ edits < MaxEdits
    /\ opts[f] # v
    /\ opts' = [opts EXCEPT ![f] = v]
    /\ edits' = edits + 1
    /\ UNCHANGED <<os_linesep, pc, built, textVars, guiVars>>

\* PromptBuilder(opts).build()
BuildRecord ==
    /\ pc = "input"
    /\ built' = build(opts)
    /\ pc' = "done"
    /\ UNCHANGED <<os_linesep, edits, opts, textVars, guiVars>>

NextBuild ==
    \/ \E f \in FieldNames : \E v \in FieldValues(f) : SetField(f, v)
    \/ BuildRecord

SpecBuild == InitBuild /\ [][NextBuild]_vars

\* -------------------------------------------------------------- SpecVars
\* replace_vars(text, mapping) on a text typed atom by atom.

\* The longest text handed to replace_vars.
MaxLen == 4

\* The atoms of the texts: the braces, two name characters, and a character
\* that no name holds.
Alphabet == { "{", "}", "X", "Y", "-" }

\* The mappings: one whose value is itself a token of another key, one with
\* a key that holds "-" and a value that is an opening brace, the empty one.
SampleMappings ==
    { (<<"X">> :> <<"{", "Y", "}">>) @@ (<<"Y">> :> <<"z">>),
      (<<"X", "-">> :> <<"w">>) @@ (<<"X">> :> <<"{">>),
      EmptyDict }

InitVars ==
    /\ os_linesep \in LineSeps
    /\ InitWindow
    /\ pc = "input"
    /\ edits = 0
    /\ opts = PromptOptions
    /\ built = << >>
    /\ text = << >>
    /\ mapping \in SampleMappings
    /\ replaced = << >>
    /\ clamped = << >>

\* text = text + c
TypeAtom(c) ==
    /\ pc = "input"
    /\ Len(text) < MaxLen
    /\ text' = Append(text, c)
    /\ UNCHANGED <<os_linesep, buildVars, mapping, replaced, clamped, guiVars>>

\* replace_vars(text, mapping)
ReplaceVars ==
    /\ pc = "input"
    /\ replaced' = replace_vars(text, mapping)
    /\ pc' = "done"
    /\ UNCHANGED <<os_linesep, edits, opts, built, text, mapping, clamped, guiVars>>

NextVars ==
    \/ \E c \in Alphabet : TypeAtom(c)
    \/ ReplaceVars

SpecVars == InitVars /\ [][NextVars]_vars

\* ------------------------------------------------------------- SpecClamp
\* clamp_text(text) on a text typed character by character.

\* The longest text handed to clamp_text.
MaxText == 7

\* The characters of the texts: the newline, the blank, a letter.
ClampAlphabet == { NL, " ", "a" }

InitClamp ==
    /\ os_linesep \in LineSeps
    /\ InitWindow
    /\ NoText
    /\ pc = "input"
    /\ edits = 0
    /\ opts = PromptOptions
    /\ built = << >>

\* text = text + c
TypeChar(c) ==
    /\ pc = "input"
    /\ Len(text) < MaxText
    /\ text' = Append(text, c)
    /\ UNCHANGED <<os_linesep, buildVars, mapping, replaced, clamped, guiVars>>

\* clamp_text(text)
ClampText ==
    /\ pc = "input"
    /\ clamped' = clamp_text(text)
    /\ pc' = "done"
    /\ UNCHANGED <<os_linesep, edits, opts, built, text, mapping, replaced, guiVars>>

NextClamp ==
    \/ \E c \in ClampAlphabet : TypeChar(c)
    \/ ClampText

SpecClamp == InitClamp /\ [][NextClamp]_vars

\* ------------------------------------------------------------------ Spec
\* The main window: the user edits widgets and clicks buttons, each click
\* runs its handler to the end.

\* The number of user actions of a session.
MaxSteps == 3

\* The path that the save dialog of _save_settings proposes.
SavePath == "prompt_settings.json"

\* The path that the save dialog of _export_txt proposes.
ExportPath == "prompt.txt"

\* The settings documents the user may open, next to the file the
\* application saved: text that is no JSON, a JSON array, an object with a
\* key that is no field, an object whose second example is no pair, an
\* object that gives every selector a value it does not list, an object with
\* a few keys (its prompt ends with a placeholder whose value has blanks
\* around it), an object written by hand (carriage returns, a blank example,
\* a variable name with blanks around it, an empty variable name), and a
\* saved record in which every field is set.
Documents ==
    [ p \in { "notes.json", "list.json", "unknown_key.json", "bad_example.json",
              "unlisted.json", "partial.json", "by_hand.json", "full.json" } |->
        CASE p = "notes.json" -> NotJson
          [] p = "list.json" -> JsonArray
          [] p = "unknown_key.json" ->
                 JsonObject([ task |-> <<"n">>, temperature |-> <<"1">> ])
          [] p = "bad_example.json" ->
                 JsonObject([ task |-> <<"n">>,
                              eagerness |-> L("High"),
                              examples |-> << << <<"q">>, <<"r">> >>, << <<"q">> >> >>,
                              variables |-> (<<"Y">> :> <<"z">>),
                              include_swe_bench |-> TRUE ])
          [] p = "unlisted.json" ->
                 JsonObject([ role |-> Unlisted,
                              delimiters |-> Unlisted,
                              output_format |-> Unlisted,
                              eagerness |-> Unlisted,
                              reasoning_effort |-> Unlisted,
                              verbosity |-> Unlisted ])
          [] p = "partial.json" ->
                 JsonObject([ task |-> <<"n">>,
                              verbosity |-> L("High"),
                              include_planning |-> TRUE,
                              planning_snippet |-> <<"{", "X", "}">>,
                              variables |-> (<<"X">> :> <<" ", "v", " ">>) ])
          [] p = "by_hand.json" ->
                 JsonObject([ task |-> <<"a", "\r", NL, "b", "\r", "c">>,
                              audience |-> <<"a", "\r", "b">>,
                              examples |-> << << <<" ">>, << >> >>, << <<"q">>, <<"r">> >> >>,
                              variables |-> (<<" ", "X", " ">> :> <<"v">>) @@ (<<" ">> :> <<"w">>) ])
          [] OTHER -> json_dumps(FullScenario) ]

\* What a user types into an editor or a cell.
TypedTexts == { <<"t">>, <<" ">> }

\* The editor the user types into.
TypedEditors == { "task_edit" }

\* The box the user toggles.
ToggledBoxes == { "chk_meta_mode" }

\* The selectors the user picks an item of.
PickedCombos == { "delim_combo", "eager_combo" }

ItemsOf(w) ==
    CASE w = "role_combo" -> RoleItems
      [] w = "delim_combo" -> DelimItems
      [] w = "output_format_combo" -> OutputFormatItems
      [] w = "eager_combo" -> EagerItems
      [] w = "reasoning_combo" -> ReasoningItems
      [] OTHER -> VerbosityItems

Init ==
    /\ os_linesep \in LineSeps
    /\ InitWindow
    /\ NoText
    /\ pc = "input"
    /\ edits = 0
    /\ opts = PromptOptions
    /\ built = << >>

\* One more user action; it leaves alone what the main window does not hold.
UserAction ==
    /\ steps < MaxSteps
    /\ steps' = steps + 1
    /\ UNCHANGED <<os_linesep, pc, edits, opts, textVars>>

\* What the latest user action ran and showed.
Ran(h, p, d, e, w) ==
    /\ handler' = h
    /\ path' = p
    /\ dialog' = d
    /\ escaped' = e
    /\ written' = w

\* The user edits a widget: no handler is connected to it.
Edit(v) ==
    /\ UserAction
    /\ view' = v
    /\ view' # view
    /\ Ran("none", "", "none", FALSE, NoWrite)
    /\ UNCHANGED <<built, output, status, disk, saved>>

\* The user replaces the text of an editor.
TypeText(w, t) == Edit([view EXCEPT ![w] = t])

\* The user toggles a box.
Toggle(w) == Edit([view EXCEPT ![w] = ~@])

\* The user picks an item of a selector.
PickItem(w, i) == Edit([view EXCEPT ![w] = ItemsOf(w)[i]])

\* The user replaces the text of a cell of a table.
EditCell(w, r, c, t) == Edit([view EXCEPT ![w][r][c] = t])

_build_prompt ==
    /\ UserAction
    /\ built' = build(_collect_options(view))
    /\ output' = setPlainText(built')
    /\ status' = <<"Prompt built.">>
    /\ Ran("_build_prompt", "", "none", FALSE, NoWrite)
    /\ UNCHANGED <<view, disk, saved>>

_copy_prompt ==
    /\ UserAction
    /\ IF strip(output) = << >>
       THEN /\ Ran("_copy_prompt", "", "Nothing to copy.", FALSE, NoWrite)
            /\ UNCHANGED status
       ELSE /\ Ran("_copy_prompt", "", "none", FALSE,
                   [ to |-> "clipboard", text |-> strip(output), failed |-> FALSE ])
            /\ status' = <<"Copied to clipboard.">>
    /\ UNCHANGED <<built, view, output, disk, saved>>

\* _export_txt that writes the text of the output display as it is.
_export_txt_verbatim(chosen, writable) ==
    /\ UserAction
    /\ IF strip(output) = << >>
       THEN /\ Ran("_export_txt", "", "Build a prompt first.", FALSE, NoWrite)
            /\ UNCHANGED status
       ELSE /\ chosen # ""
            /\ writable
            /\ Ran("_export_txt", chosen, "none", FALSE,
                   [ to |-> chosen, text |-> output, failed |-> FALSE ])
            /\ status' = <<"Exported to ", chosen>>
    /\ UNCHANGED <<built, view, output, disk, saved>>

\* chosen is what the dialog returns: "" when the user cancels it, else the
\* path; writable tells whether open() and write() succeed on that path.
_export_txt(chosen, writable) ==
    /\ UserAction
    /\ IF strip(output) = << >>
       THEN /\ Ran("_export_txt", "", "Build a prompt first.", FALSE, NoWrite)
            /\ UNCHANGED status
       ELSE IF chosen = ""
       THEN /\ Ran("_export_txt", "", "none", FALSE, NoWrite)
            /\ UNCHANGED status
       ELSE IF writable
       THEN /\ Ran("_export_txt", chosen, "none", FALSE,
                   [ to |-> chosen, text |-> strip(output), failed |-> FALSE ])
            /\ status' = <<"Exported to ", chosen>>
       ELSE /\ Ran("_export_txt", chosen, "none", TRUE,
                   [ to |-> chosen, text |-> << >>, failed |-> TRUE ])
            /\ UNCHANGED status
    /\ UNCHANGED <<built, view, output, disk, saved>>

\* _reset_all without self.output.clear().
_reset_all_keeping_output ==
    /\ UserAction
    /\ view' = _apply_options(view, PromptOptions)
    /\ status' = <<"Reset.">>
    /\ Ran("_reset_all", "", "none", FALSE, NoWrite)
    /\ UNCHANGED <<built, output, disk, saved>>

_reset_all ==
    /\ UserAction
    /\ view' = _apply_options(view, PromptOptions)
    /\ output' = << >>
    /\ status' = <<"Reset.">>
    /\ Ran("_reset_all", "", "none", FALSE, NoWrite)
    /\ UNCHANGED <<built, disk, saved>>

\* which is the item of preset_combo at the click.
_apply_preset(which) ==
    /\ UserAction
    /\ view' = _apply_options(view, PresetOptions(which))
    /\ status' = <<"Applied preset: ">> \o which
    /\ Ran("_apply_preset", "", "none", FALSE, NoWrite)
    /\ UNCHANGED <<built, output, disk, saved>>

\* A handler of the tables: it changes a table and shows nothing.
TableHandler(h, w, rows) ==
    /\ UserAction
    /\ view' = [view EXCEPT ![w] = rows]
    /\ Ran(h, "", "none", FALSE, NoWrite)
    /\ UNCHANGED <<built, output, status, disk, saved>>

\* The rows without the row r.
removeRow(rows, r) == SubSeq(rows, 1, r - 1) \o SubSeq(rows, r + 1, Len(rows))

_add_example_row ==
    TableHandler("_add_example_row", "examples_table",
                 Append(view.examples_table,
                        << L("User input here"), L("Assistant reply here") >>))

\* selected is the selected row, 0 when no row is selected.
_del_example_row(selected) ==
    TableHandler("_del_example_row", "examples_table",
                 IF selected = 0 THEN view.examples_table
                 ELSE removeRow(view.examples_table, selected))

_insert_starter_example ==
    TableHandler("_insert_starter_example", "examples_table",
                 Append(view.examples_table,
                        << L("Summarize this article for a technical audience."),
                           L("Summary focused on architecture decisions and trade-offs.") >>))

_add_var_row ==
    TableHandler("_add_var_row", "vars_table",
                 Append(view.vars_table, << L("PROJECT_NAME"), L("MyApp") >>))

_del_var_row(selected) ==
    TableHandler("_del_var_row", "vars_table",
                 IF selected = 0 THEN view.vars_table
                 ELSE removeRow(view.vars_table, selected))

_insert_starter_vars ==
    TableHandler("_insert_starter_vars", "vars_table",
                 view.vars_table \o << << L("LANG"), L("Python") >>,
                                       << L("FRAMEWORK"), L("FastAPI") >>,
                                       << L("DEADLINE"), L("2025-10-31") >> >>)

\* chosen is what the dialog returns; outcome tells how open() and write()
\* end: "written", "open fails" (the file stays as it was) or "write fails"
\* (the file is left truncated).
_save_settings(chosen, outcome) ==
    /\ UserAction
    /\ IF chosen = ""
       THEN /\ Ran("_save_settings", "", "none", FALSE, NoWrite)
            /\ UNCHANGED <<status, disk, saved>>
       ELSE IF outcome = "written"
       THEN /\ Ran("_save_settings", chosen, "none", FALSE,
                   [ to |-> chosen, text |-> << >>, failed |-> FALSE ])
            /\ disk' = json_dumps(_collect_options(view))
            /\ saved' = _collect_options(view)
            /\ status' = <<"Saved settings to ", chosen>>
       ELSE /\ Ran("_save_settings", chosen, "none", TRUE,
                   [ to |-> chosen, text |-> << >>, failed |-> TRUE ])
            /\ disk' = IF outcome = "write fails" THEN NotJson ELSE disk
            /\ UNCHANGED <<status, saved>>
    /\ UNCHANGED <<built, view, output>>

\* The file at a path.
FileAt(p) == IF p = SavePath THEN disk ELSE Documents[p]

\* chosen is what the dialog returns: "" when the user cancels it, else the
\* path of an existing file.
_load_settings(chosen) ==
    /\ UserAction
    /\ IF chosen = ""
       THEN /\ Ran("_load_settings", "", "none", FALSE, NoWrite)
            /\ UNCHANGED <<view, status>>
       ELSE LET file == FileAt(chosen)
            IN  /\ file.kind # "missing"
                /\ IF JsonLoadRaises(file) \/ KwargsRaise(file)
                   THEN /\ Ran("_load_settings", chosen, "Failed to load", FALSE, NoWrite)
                        /\ UNCHANGED <<view, status>>
                   ELSE LET o == PromptOptionsFrom(file.members)
                        IN  /\ view' = _apply_options(view, o)
                            /\ IF ApplyRaises(o)
                               THEN /\ Ran("_load_settings", chosen, "Failed to load",
                                           FALSE, NoWrite)
                                    /\ UNCHANGED status
                               ELSE /\ Ran("_load_settings", chosen, "none", FALSE, NoWrite)
                                    /\ status' = <<"Loaded settings from ", chosen>>
    /\ UNCHANGED <<built, output, disk, saved>>

Next ==
    \/ \E w \in TypedEditors : \E t \in TypedTexts : TypeText(w, t)
    \/ \E w \in ToggledBoxes : Toggle(w)
    \/ \E w \in PickedCombos : \E i \in DOMAIN ItemsOf(w) : PickItem(w, i)
    \/ \E w \in { "examples_table", "vars_table" } :
           \E r \in DOMAIN view[w] : \E c \in 1..2 : \E t \in TypedTexts :
               EditCell(w, r, c, t)
    \/ _build_prompt
    \/ _copy_prompt
    \/ \E chosen \in { "", ExportPath } : \E writable \in BOOLEAN :
           _export_txt(chosen, writable)
    \/ _reset_all
    \/ \E i \in DOMAIN PresetItems : _apply_preset(PresetItems[i])
    \/ _add_example_row
    \/ \E r \in 0..Len(view.examples_table) : _del_example_row(r)
    \/ _insert_starter_example
    \/ _add_var_row
    \/ \E r \in 0..Len(view.vars_table) : _del_var_row(r)
    \/ _insert_starter_vars
    \/ \E chosen \in { "", SavePath } :
           \E outcome \in { "written", "open fails", "write fails" } :
               _save_settings(chosen, outcome)
    \/ \E chosen \in { "", SavePath } \cup DOMAIN Documents : _load_settings(chosen)

Spec == Init /\ [][Next]_vars

\* ----------------------------------------------------- claims: SpecBuild

\* Whether s holds sub as a contiguous part.
Contains(s, sub) ==
    \E i \in 1..(Len(s) - Len(sub) + 1) : SubSeq(s, i, i + Len(sub) - 1) = sub

\* Every optional field is empty or false and every selector holds its default.
AllOptionalEmpty(o) ==
    /\ \A f \in TextFields : o[f] = << >>
    /\ \A f \in BoolFields : ~o[f]
    /\ \A f \in SelectorFields : o[f] = PromptOptions[f]
    /\ o.examples = << >>
    /\ o.variables = EmptyDict

\* C1, as the specification states it: for a record with every optional field empty or false and
\* every selector at its default, build() returns the role line and nothing
\* else.
C1_RoleLineAlone ==
    (pc = "done" /\ AllOptionalEmpty(opts)) => built = _role_line(opts)

\* C1: for such a record build() returns the role line, a blank
\* line and the medium-eagerness sentence, which the agentic-controls block
\* emits whatever the flags; for the default record that is
\* "You are General assistant.\n\nAgentic eagerness: medium. Balance
\* proactivity with directness.".
C1_RoleLineThenEagerness ==
    (pc = "done" /\ AllOptionalEmpty(opts)) =>
        /\ built = _role_line(opts) \o <<NL, NL>>
                       \o L("Agentic eagerness: medium. Balance proactivity with directness.")
        /\ built = << "You are", " ", "General assistant", ".", NL, NL,
                      "Agentic eagerness: medium. Balance proactivity with directness." >>

\* C1's case: build() has run on a record with nothing optional set.
C1_Witness == pc = "done" /\ AllOptionalEmpty(opts)

\* The default record with the three meta fields of o, in meta mode.
MetaFieldsOf(o) ==
    [ PromptOptions EXCEPT !.meta_mode = TRUE,
                           !.meta_prompt = o.meta_prompt,
                           !.meta_desired = o.meta_desired,
                           !.meta_undesired = o.meta_undesired ]

\* The default record with the meta fields, the delimiter style and the
\* variables of o, in meta mode.
MetaInputsOf(o) ==
    [ MetaFieldsOf(o) EXCEPT !.delimiters = o.delimiters,
                             !.variables = o.variables ]

\* C2, as the specification states it: in meta mode the output is a function of meta_prompt,
\* meta_desired and meta_undesired alone, so two records that agree on them
\* build the same string; equivalently, every record in meta mode builds
\* what the record with its three meta fields and every other field at its
\* default builds.
C2_MetaFieldsDecideOutput ==
    (pc = "done" /\ opts.meta_mode) => built = build(MetaFieldsOf(opts))

\* C2: in meta mode two records that agree on the meta fields,
\* on the delimiter style and on the variables build the same string,
\* whatever their other fields hold.
C2_MetaInputsDecideOutput ==
    (pc = "done" /\ opts.meta_mode) => built = build(MetaInputsOf(opts))

\* C2's case: build() has run in meta mode on a record one of whose other
\* fields is set.
C2_Witness ==
    /\ pc = "done"
    /\ opts.meta_mode
    /\ opts # MetaInputsOf(opts)

\* The items of the selectors that the builder reads as an enumeration.
EnumFields == { "verbosity", "reasoning_effort", "eagerness", "output_format" }

Recognized(f) ==
    IF f = "verbosity" THEN { L("Default"), L("Low"), L("Medium"), L("High") }
    ELSE IF f = "reasoning_effort" THEN { L("Default"), L("Minimal"), L("Medium"), L("High") }
    ELSE IF f = "eagerness" THEN { L("Low"), L("Medium"), L("High") }
    ELSE { L("Plain text"), L("Markdown"), L("JSON") }

\* o with field f at the default of PromptOptions.
WithDefault(o, f) == [ o EXCEPT ![f] = PromptOptions[f] ]

\* C10, as the specification states it: a value of verbosity, reasoning effort, eagerness or
\* output format that is not one of the field's items builds what the
\* field's default ("Default", "Default", "Medium", "Plain text") builds.
C10_UnrecognizedEnumIsNotSet ==
    pc = "done" =>
        \A f \in EnumFields :
            opts[f] \notin Recognized(f) => built = build(WithDefault(opts, f))

\* C10: build() returns a string for every value of these
\* fields; an unrecognized eagerness or output format builds what "Medium"
\* or "Plain text" builds; an unrecognized verbosity or reasoning effort is
\* not read as "Default": outside meta mode the directive
\* "Verbosity: <value in lower case>." or "Reasoning effort: <value in lower
\* case>." is emitted for it, as for every value other than "Default".
C10_UnrecognizedEnum ==
    pc = "done" =>
        /\ \A f \in { "eagerness", "output_format" } :
               opts[f] \notin Recognized(f) => built = build(WithDefault(opts, f))
        /\ (~opts.meta_mode /\ opts.verbosity \notin Recognized("verbosity")) =>
               Contains(built, <<NL, NL, "Verbosity:", " ">> \o lower(opts.verbosity) \o <<".">>)
        /\ (~opts.meta_mode /\ opts.reasoning_effort \notin Recognized("reasoning_effort")) =>
               Contains(built, <<NL, NL, "Reasoning effort:", " ">>
                                   \o lower(opts.reasoning_effort) \o <<".", NL, NL>>)

\* C10's case: build() has run outside meta mode on a record whose verbosity
\* is not listed.
C10_Witness ==
    /\ pc = "done"
    /\ ~opts.meta_mode
    /\ opts.verbosity \notin Recognized("verbosity")
    /\ built # build(WithDefault(opts, "verbosity"))

\* The sentences of the coding block and of the rationale directive.
CodingSentence ==
    "Coding mode: enabled. Prefer small, verifiable steps and runnable outputs."

PatchSentence ==
    "For code edits, prefer unified diffs in an apply_patch block: begin with '*** Begin Patch' and end with '*** End Patch'."

RationaleSentence ==
    "Begin the final answer with 1-3 concise bullets summarizing key factors. Do not include private chain-of-thought."

\* A block of text between the delimiters of o, under a header; empty when
\* the text is blank.
Delimited(o, header, t) ==
    IF strip(t) = << >> THEN << >>
    ELSE <<header, " ", _delim(o)[1], NL>> \o clamp_text(t) \o <<NL, _delim(o)[2]>>

\* The fourteen sections of the output outside meta mode, in their order.
Sections(o) ==
    << _role_line(o),
       Delimited(o, "Task", o.task),
       Delimited(o, "Context", o.additional_context),
       _audience_line(o),
       _constraints_block(o),
       _verbosity_block(o),
       _reasoning_block(o),
       _agentic_controls(o),
       _planning_block(o),
       _coding_block(o),
       _examples_block(o),
       _formatting_block(o),
       _appendix_block(o),
       IF o.ask_brief_rationale THEN L(RationaleSentence) ELSE << >> >>

\* The sections that are present: not blank, each one trimmed.
PresentSections(o) ==
    LET trimmed == [ i \in DOMAIN Sections(o) |-> strip(Sections(o)[i]) ]
    IN  SelectSeq(trimmed, LAMBDA t : t # << >>)

\* The position of the first atom a of s, 0 when s does not hold it.
IndexOf(s, a) ==
    IF \E i \in DOMAIN s : s[i] = a THEN Min({ i \in DOMAIN s : s[i] = a }) ELSE 0

\* C11: outside meta mode the output is made of the sections that are not
\* blank once trimmed, in the order role line, task, context, audience,
\* constraints, verbosity, reasoning, agentic controls, planning, coding,
\* examples, formatting, appendix, rationale, joined by one blank line, then
\* normalized and substituted; with coding mode, the patch instruction and a
\* task, the task block comes before the coding sentence, which comes before
\* the patch instruction.
C11_SectionOrder ==
    (pc = "done" /\ ~opts.meta_mode) =>
        /\ built = replace_vars(clamp_text(join(<<NL, NL>>, PresentSections(opts))),
                                opts.variables)
        /\ (opts.coding_mode /\ opts.include_apply_patch_instr /\ strip(opts.task) # << >>) =>
               /\ 0 < IndexOf(built, "Task")
               /\ IndexOf(built, "Task") < IndexOf(built, CodingSentence)
               /\ IndexOf(built, CodingSentence) < IndexOf(built, PatchSentence)

\* build() has run on a record with a task, coding mode, the patch
\* instruction and at least eight sections.
C11_Witness ==
    /\ pc = "done"
    /\ ~opts.meta_mode
    /\ opts.coding_mode
    /\ opts.include_apply_patch_instr
    /\ strip(opts.task) # << >>
    /\ Len(PresentSections(opts)) >= 8

\* C13: _delim returns a pair for every delimiter style, and a record whose
\* style is neither "triple quotes" nor "XML tags" builds what the same
\* record with the style "triple backticks" builds.
C13_UnknownStyleIsBackticks ==
    pc = "done" =>
        /\ Len(_delim(opts)) = 2
        /\ opts.delimiters \notin { L("triple quotes"), L("XML tags") } =>
               built = build([ opts EXCEPT !.delimiters = L("triple backticks") ])

\* build() has run on a record with a style that is not listed and a text
\* to put between delimiters, and the output holds the fence of backticks.
C13_Witness ==
    /\ pc = "done"
    /\ opts.delimiters = Unlisted
    /\ opts.meta_mode \/ strip(opts.task) # << >> \/ opts.examples # << >>
    /\ \E i \in DOMAIN built : built[i] = Backticks

\* The lines of a text: the parts between its newlines.
RECURSIVE split_lines(_)
split_lines(s) ==
    LET breaks == { i \in DOMAIN s : s[i] = NL }
    IN  IF breaks = {} THEN << s >>
        ELSE << SubSeq(s, 1, Min(breaks) - 1) >>
                 \o split_lines(SubSeq(s, Min(breaks) + 1, Len(s)))

\* C15: for a constraints text that is not empty once normalized the
\* constraints block is the header "Constraints:" and one "- " bullet for
\* every line of the normalized text; for an empty one it is omitted.
C15_EveryLineIsABullet ==
    pc = "done" =>
        LET cons  == clamp_text(opts.constraints)
            lines == split_lines(cons)
        IN  _constraints_block(opts) =
                IF cons = << >> THEN << >>
                ELSE <<"Constraints:", NL>>
                         \o join(<<NL>>, [ i \in DOMAIN lines |-> <<"-", " ">> \o lines[i] ])

\* The text that build() joins before it normalizes and substitutes.
Joined(o) ==
    IF o.meta_mode THEN _meta_prompt(o) ELSE join(<<NL, NL>>, PresentSections(o))

\* C16, as the specification states it: in both modes build() returns
\* replace_vars(clamp_text(joined), variables).
C16_NormalizeThenSubstitute ==
    pc = "done" => built = replace_vars(clamp_text(Joined(opts)), opts.variables)

\* o without variables.
WithoutVariables(o) == [ o EXCEPT !.variables = EmptyDict ]

\* C16: outside meta mode the joined text is normalized first and the
\* variables are substituted last, so what they insert is not normalized; in
\* meta mode the variables are substituted first and the result is
\* normalized, so the output is normalized whatever the variables insert.
C16_SubstitutionOrder ==
    pc = "done" =>
        IF opts.meta_mode
        THEN /\ built = clamp_text(replace_vars(Joined(opts), opts.variables))
             /\ clamp_text(built) = built
        ELSE /\ built = replace_vars(build(WithoutVariables(opts)), opts.variables)
             /\ build(WithoutVariables(opts)) = clamp_text(Joined(opts))

\* build() has run in meta mode with a variable whose value normalization
\* changes, so that the two orders give different outputs.
C16_Witness ==
    /\ pc = "done"
    /\ opts.meta_mode
    /\ built # replace_vars(clamp_text(Joined(opts)), opts.variables)

\* The sentence of the planning block when there is no snippet.
PlanningSentence ==
    "Plan the steps before producing the final answer. Verify each step. Do not yield until all sub-tasks are complete."

\* C17: the planning block is emitted exactly when include_planning is set,
\* and it is the header "Planning:" and a body that is not empty: the
\* normalized snippet when the snippet is not blank, the default sentence
\* when it is empty or blank.
C17_PlanningBody ==
    pc = "done" =>
        LET body == IF strip(opts.planning_snippet) # << >>
                    THEN clamp_text(opts.planning_snippet)
                    ELSE L(PlanningSentence)
        IN  _planning_block(opts) =
                IF opts.include_planning THEN <<"Planning:", NL>> \o body ELSE << >>

\* ------------------------------------------------------ claims: SpecVars

\* Whether s[i..j] is a token: an opening brace, one or more name
\* characters, a closing brace.
IsToken(s, i, j) ==
    /\ i + 1 < j
    /\ s[i] = "{"
    /\ s[j] = "}"
    /\ \A k \in (i + 1)..(j - 1) : s[k] \in IdChars

\* What the output holds for position i of the text: the mapped value at the
\* opening brace of a token whose name is a key, nothing for the other
\* positions of such a token, the character itself anywhere else.
OutputAt(s, m, i) ==
    IF \E j \in DOMAIN s : IsToken(s, i, j) /\ SubSeq(s, i + 1, j - 1) \in DOMAIN m
    THEN m[SubSeq(s, i + 1, (CHOOSE j \in DOMAIN s : IsToken(s, i, j)) - 1)]
    ELSE IF \E a, b \in DOMAIN s :
                a < i /\ i <= b /\ IsToken(s, a, b) /\ SubSeq(s, a + 1, b - 1) \in DOMAIN m
         THEN << >>
         ELSE << s[i] >>

RECURSIVE OutputFrom(_, _, _)
OutputFrom(s, m, i) ==
    IF i > Len(s) THEN << >> ELSE OutputAt(s, m, i) \o OutputFrom(s, m, i + 1)

\* C3: replace_vars is a single left-to-right pass.  Every token {name}
\* of the text whose name is a key of the mapping is replaced by the mapped
\* value, every other character of the text, the tokens whose name is no key
\* included, stays as it is, and the inserted text is not scanned again; a
\* key that holds a character other than a letter, a digit or an underscore
\* has no effect on the result.
C3_SinglePass ==
    pc = "done" =>
        /\ replaced = OutputFrom(text, mapping, 1)
        /\ \A k \in DOMAIN mapping :
               (\E i \in DOMAIN k : k[i] \notin IdChars) =>
                   replaced = replace_vars(text, [ x \in DOMAIN mapping \ {k} |-> mapping[x] ])

\* The text "{X}" under the mapping X -> "{Y}", Y -> "z" has become "{Y}".
C3_Witness ==
    /\ pc = "done"
    /\ text = <<"{", "X", "}">>
    /\ <<"Y">> \in DOMAIN mapping
    /\ replaced = <<"{", "Y", "}">>

\* ---------------------------------------------------------- claims: Spec

\* The latest user action was a load settings that opened a file and
\* reported no error.
LoadSucceeded == handler = "_load_settings" /\ path # "" /\ dialog = "none"

\* C4: when load settings fails, an error message is shown and the widgets,
\* so the record they hold, are what they were before the load.
C4_FailedLoadKeepsView ==
    [][ (handler' = "_load_settings" /\ dialog' = "Failed to load") => view' = view ]_vars

\* C5: a load settings of the file that save settings wrote gives back, read
\* from the widgets, the record that save settings had collected, field by
\* field.
C5_SaveLoadRoundTrip ==
    (LoadSucceeded /\ path = SavePath) => _collect_options(view) = saved

\* A record with examples and variables was saved and has been loaded.
C5_Witness ==
    /\ LoadSucceeded
    /\ path = SavePath
    /\ saved.examples # << >>
    /\ DOMAIN saved.variables # {}
    /\ saved.task # << >>

\* C6: after a load settings that succeeded, the record read from the
\* widgets is the one a freshly constructed window shows for the same
\* document: it does not depend on what the widgets held before the load.
C6_LoadReplacesWholesale ==
    LoadSucceeded =>
        _collect_options(view) =
            _collect_options(_apply_options(InitialView, PromptOptionsFrom(FileAt(path).members)))

\* Whether a file is a JSON object with a key that is no field of PromptOptions.
HasUnknownKey(file) ==
    file.kind = "object" /\ ~(DOMAIN file.members \subseteq FieldNames)

\* C7, as the specification states it: a key of the document that is no field is ignored, the
\* load succeeds and applies the other keys.
C7_UnknownKeyIgnored ==
    (handler = "_load_settings" /\ path = "unknown_key.json") =>
        /\ dialog = "none"
        /\ _collect_options(view).task = Documents["unknown_key.json"].members.task

\* C7: a load settings of a document with a key that is no field of the
\* record fails: the error is shown in a message box, and the widgets, the
\* output display and the status bar stay as they were.
C7_UnknownKeyFailsLoad ==
    [][ (handler' = "_load_settings" /\ path' # "" /\ HasUnknownKey(FileAt(path')))
            => /\ dialog' = "Failed to load"
               /\ view' = view
               /\ output' = output
               /\ status' = status ]_vars

\* The load of the document with the unknown key has failed in a window
\* whose widgets were no longer those of the construction.
C7_Witness ==
    /\ handler = "_load_settings"
    /\ path = "unknown_key.json"
    /\ dialog = "Failed to load"
    /\ view # InitialView

\* C8: when the write of export or save settings fails, the handler catches
\* the error and reports it.
C8_WriteFailureCaught ==
    written.failed => (~escaped /\ dialog # "none")

\* C9: after apply preset the record read from the widgets is the default
\* record overridden by the table of the preset, whatever the widgets held
\* before; after reset it is the default record, and the output display is
\* empty.
C9_PresetReplacesRecord ==
    /\ handler = "_apply_preset" => _collect_options(view) = PresetOptions(<<status[2]>>)
    /\ handler = "_reset_all" => (_collect_options(view) = PromptOptions /\ output = << >>)

\* The preset of the coding workflow has been applied to widgets that held
\* the saved record, one with a task, examples and variables.
C9_Witness ==
    /\ handler = "_apply_preset"
    /\ status[2] = "Coding workflow"
    /\ steps = 3
    /\ disk.kind = "object"
    /\ saved.task # << >>
    /\ saved.examples # << >>
    /\ DOMAIN saved.variables # {}

\* The latest user action was an export that wrote the file.
Exported == handler = "_export_txt" /\ written.to = ExportPath /\ ~written.failed

\* C14, as the specification states it: the text that export writes is,
\* character for character, the string that build() returned.
C14_ExportWritesVerbatim == Exported => written.text = built

\* C14: the text that export writes is the string that build() returned as
\* the output display holds it, carriage returns read back as newlines,
\* without the whitespace at its two ends.
C14_ExportWritesStripped == Exported => written.text = strip(setPlainText(built))

\* An export has written, directly after the build of the record the widgets
\* hold, a prompt that build() returned with whitespace at its end.
C14_Witness ==
    /\ Exported
    /\ built = build(_collect_options(view))
    /\ written.text # built
    /\ written.text = strip(built)

\* C18, as the specification states it: the output display is empty or
\* holds the string build() returned at the latest click on build prompt,
\* and copy and export emit that string.
C18_OutputIsLastBuild ==
    /\ output = << >> \/ output = built
    /\ (handler \in { "_copy_prompt", "_export_txt" } /\ written.to # "none" /\ ~written.failed)
           => written.text = built

\* C18: only build prompt and reset change the output display: build
\* prompt sets it to what build() returns on the record collected at the
\* click, as the display holds it, and reset empties it, so that it is
\* always empty or the display of the latest built prompt; copy and export
\* show an information message and write nothing when the display is empty,
\* and otherwise emit its text without the whitespace at the two ends,
\* whatever the widgets hold by then.
C18_OutputFrame ==
    [][ /\ output' # output => handler' \in { "_build_prompt", "_reset_all" }
        /\ handler' = "_build_prompt" =>
               (built' = build(_collect_options(view)) /\ output' = setPlainText(built'))
        /\ handler' = "_reset_all" => output' = << >>
        /\ output' = << >> \/ output' = setPlainText(built')
        /\ handler' \in { "_copy_prompt", "_export_txt" } =>
               IF output = << >>
               THEN dialog' # "none" /\ written' = NoWrite
               ELSE /\ dialog' = "none"
                    /\ handler' = "_copy_prompt" => written'.to = "clipboard"
                    /\ (written'.to # "none" /\ ~written'.failed) =>
                           written'.text = strip(output) ]_vars

\* Copy has put the latest built prompt on the clipboard although the
\* widgets no longer hold the record it was built from.
C18_Witness ==
    /\ handler = "_copy_prompt"
    /\ written.to = "clipboard"
    /\ written.text = strip(setPlainText(built))
    /\ built # build(_collect_options(view))

\* ----------------------------------------------------- claims: SpecClamp

\* Whether s holds three newlines in a row.
HasLongRun(s) ==
    \E i \in 1..(Len(s) - 2) : s[i] = NL /\ s[i + 1] = NL /\ s[i + 2] = NL

\* C12: clamp_text is idempotent, and what it returns holds no run of three
\* or more newlines and neither starts nor ends with whitespace.
C12_ClampIdempotent ==
    pc = "done" =>
        /\ clamp_text(clamped) = clamped
        /\ ~HasLongRun(clamped)
        /\ clamped # << >> => (~IsSpace(clamped[1]) /\ ~IsSpace(clamped[Len(clamped)]))

\* clamp_text has run on a text with whitespace in front, a run of four
\* newlines inside and a newline behind.
C12_Witness ==
    /\ pc = "done"
    /\ text = <<" ", "a", NL, NL, NL, NL, "a">> \/ text = <<"a", NL, NL, NL, NL, "a", NL>>
    /\ clamped = <<"a", NL, NL, "a">>

====
